---- MODULE Spec2Model ----
(***************************************************************************)
(* A model of gpt_index/index.py: the bottom-up index builder              *)
(* (GPTIndexBuilder) and the top-down recursive query (GPTIndex).          *)
(*                                                                         *)
(* Texts are sequences of tokens ("alpha", "\n", "summary:", ...); the     *)
(* selection oracle's responses are sequences of one-character strings,    *)
(* so that number extraction is real parsing.  Python's None is the text   *)
(* None below.  Recursion is an explicit stack of _query frames; one       *)
(* action is one stretch of code between two oracle calls.                 *)
(***************************************************************************)
EXTENDS Integers, Sequences, FiniteSets, TLC

\* ------------------------------------------------------------- bounds
MaxK == 5
MaxB == 3
MaxC == 2
\* the interpreter's recursion limit, scaled down to the model's size
MaxRecursion == 3

VARIABLES
    num_children,        \* GPTIndexBuilder.num_children (B)
    all_nodes,           \* id -> Node, the dict build_from_text creates
    root_nodes,          \* set of ids: the keys of the returned root dict
    cur_node_list,       \* _build_index_from_nodes: sorted ids of cur_nodes
    new_node_dict,       \* _build_index_from_nodes: the layer being created
    i,                   \* _build_index_from_nodes: loop index
    cur_index,           \* _build_index_from_nodes: next unused id
    depth,               \* number of active _build_index_from_nodes calls
    bpc,                 \* builder position: idle, merge, done, error
    child_branch_factor, \* GPTIndex.child_branch_factor (C)
    stack,               \* active _query frames, the innermost last
    answer,              \* what query() returned
    qpc,                 \* query position: idle, running, done, error
    error,               \* the exception that ended the build or the query
    sel_stub             \* history: every selection response so far was "(1)"

vars == <<num_children, all_nodes, root_nodes, cur_node_list, new_node_dict, i,
          cur_index, depth, bpc, child_branch_factor, stack, answer, qpc,
          error, sel_stub>>

buildVars == <<num_children, all_nodes, root_nodes, cur_node_list,
               new_node_dict, i, cur_index, depth, bpc>>

\* ------------------------------------------------------------- values
None == <<"<None>">>
Newline == "\n"
QueryStr == <<"q">>
EmptyDict == [x \in {} |-> None]

Min(a, b) == IF a <= b THEN a ELSE b
Max(a, b) == IF a >= b THEN a ELSE b

\* the chunker's output for a corpus of K chunks
ChunkWord(k) == IF k = 1 THEN "alpha" ELSE IF k = 2 THEN "beta" ELSE "gamma"
SplitText(K) == [k \in 1..K |-> <<ChunkWord(k)>>]

\* ------------------------------------------------------------- oracle stubs
SummaryOracle(text) == <<"summary:">> \o text
AnswerOracle(context_str, query_str) ==
    <<"answer:">> \o context_str \o <<"|">> \o query_str
RefineOracle(query_str, existing_answer, context_msg) ==
    <<"refine:">> \o existing_answer \o <<"|">> \o context_msg

\* the selection oracle's possible responses, character by character
Responses ==
    { <<"(", "1", ")">>,
      <<"(", "1", ")", "(", "2", ")">>,
      <<"(", "2", ")">>,
      <<"(", "0", ")">>,
      <<"(", "1", ")", "(", "9", ")">>,
      <<"(", "1", "2", ")">>,
      <<"n", "o", Newline>> }

\* ------------------------------------------------------------- helpers
RECURSIVE SortedSeq(_)
SortedSeq(S) ==
    IF S = {} THEN <<>>
    ELSE LET m == CHOOSE x \in S : \A y \in S : x <= y
         IN <<m>> \o SortedSeq(S \ {m})

\* _get_sorted_node_list, on the keys of the dict
GetSortedNodeList(keys) == SortedSeq(keys)

\* faulty variant: the separator after each node's text is forgotten
RECURSIVE GetTextFromNodesNoNewline(_, _)
GetTextFromNodesNoNewline(nodes, list) ==
    IF list = <<>> THEN <<>>
    ELSE nodes[Head(list)].text \o GetTextFromNodesNoNewline(nodes, Tail(list))

RECURSIVE GetTextFromNodes(_, _)
GetTextFromNodes(nodes, list) ==
    IF list = <<>> THEN <<>>
    ELSE nodes[Head(list)].text \o <<Newline>>
         \o GetTextFromNodes(nodes, Tail(list))

\* faulty variant: the slice runs one node into the next group
NodesChunkOverlap(list, from, B) == SubSeq(list, from + 1, Min(from + B + 1, Len(list)))

\* cur_node_list[i : i + num_children]
NodesChunk(list, from, B) == SubSeq(list, from + 1, Min(from + B, Len(list)))

SeqRange(s) == {s[k] : k \in 1..Len(s)}

\* faulty variant: the new node lists itself among its children
NewNodeSelfChild(summary, idx, chunk) ==
    [text |-> summary, index |-> idx, child_indices |-> SeqRange(chunk) \cup {idx}]

\* Node(new_summary, cur_index, {n.index for n in cur_nodes_chunk})
NewNode(summary, idx, chunk) ==
    [text |-> summary, index |-> idx, child_indices |-> SeqRange(chunk)]

\* faulty variant: the layer is accepted as the roots one node too early
IsRootLayerOffByOne(n, B) == n <= B + 1

\* faulty variant: merging goes on until a single root is left
IsRootLayerSingle(n, B) == n <= 1

\* len(new_node_dict) <= self.num_children
IsRootLayer(n, B) == n <= B

Digits == {"0", "1", "2", "3", "4", "5", "6", "7", "8", "9"}
DigitVal(c) ==
    CASE c = "0" -> 0 [] c = "1" -> 1 [] c = "2" -> 2 [] c = "3" -> 3
      [] c = "4" -> 4 [] c = "5" -> 5 [] c = "6" -> 6 [] c = "7" -> 7
      [] c = "8" -> 8 [] c = "9" -> 9

\* the maximal digit runs of a response, each converted by int()
RECURSIVE DigitRuns(_, _, _)
DigitRuns(s, inRun, acc) ==
    IF s = <<>> THEN (IF inRun THEN <<acc>> ELSE <<>>)
    ELSE IF Head(s) \in Digits
         THEN DigitRuns(Tail(s), TRUE, (IF inRun THEN acc * 10 ELSE 0) + DigitVal(Head(s)))
         ELSE (IF inRun THEN <<acc>> ELSE <<>>) \o DigitRuns(Tail(s), FALSE, 0)

\* extract_numbers_given_response(response, n): the first n numbers
ExtractNumbers(response, n) ==
    LET all == DigitRuns(response, FALSE, 0)
    IN SubSeq(all, 1, Min(n, Len(all)))

Whitespace == {" ", Newline}
RECURSIVE LStrip(_)
LStrip(s) == IF s # <<>> /\ Head(s) \in Whitespace THEN LStrip(Tail(s)) ELSE s
RECURSIVE RStrip(_)
RStrip(s) ==
    IF s # <<>> /\ s[Len(s)] \in Whitespace THEN RStrip(SubSeq(s, 1, Len(s) - 1)) ELSE s
\* str.strip()
Strip(s) == RStrip(LStrip(s))

\* "\n".join([a, b])
JoinNewline(a, b) == a \o <<Newline>> \o b

\* ------------------------------------------------------------- builder
Init ==
    /\ num_children \in 1..MaxB
    /\ child_branch_factor \in 1..MaxC
    /\ all_nodes = EmptyDict
    /\ root_nodes = {}
    /\ cur_node_list = <<>>
    /\ new_node_dict = EmptyDict
    /\ i = 0
    /\ cur_index = 0
    /\ depth = 0
    /\ bpc = "idle"
    /\ stack = <<>>
    /\ answer = None
    /\ qpc = "idle"
    /\ error = "none"
    /\ sel_stub = TRUE

queryVars == <<child_branch_factor, stack, answer, qpc, sel_stub>>

\* all_nodes = {i: Node(t, i, set()) for i, t in enumerate(text_chunks)}
LeafNodes(text_chunks) ==
    [id \in 0..(Len(text_chunks) - 1) |->
        [text |-> text_chunks[id + 1], index |-> id, child_indices |-> {}]]

\* all_nodes.update(new_node_dict)
DictUpdate(d, new) == new @@ d

\* build_from_text, up to the first summary call of _build_index_from_nodes
BuildFromText ==
    /\ bpc = "idle"
    /\ \E K \in 0..MaxK :
         LET leaves == LeafNodes(SplitText(K))
         IN /\ all_nodes' = leaves
            /\ cur_node_list' = GetSortedNodeList(DOMAIN leaves)
            /\ cur_index' = Cardinality(DOMAIN leaves)
    /\ new_node_dict' = EmptyDict
    /\ i' = 0
    /\ depth' = 1
    /\ bpc' = "merge"
    /\ UNCHANGED <<num_children, root_nodes, error>>
    /\ UNCHANGED queryVars

\* one iteration of the for loop: one summary call, one new node
MergeStep ==
    /\ bpc = "merge"
    /\ i < Len(cur_node_list)
    /\ LET cur_nodes_chunk == NodesChunk(cur_node_list, i, num_children)
           text_chunk == GetTextFromNodes(all_nodes, cur_nodes_chunk)
           new_summary == SummaryOracle(text_chunk)
       IN new_node_dict' =
            DictUpdate(new_node_dict,
                       cur_index :> NewNode(new_summary, cur_index, cur_nodes_chunk))
    /\ cur_index' = cur_index + 1
    /\ i' = i + num_children
    /\ UNCHANGED <<num_children, all_nodes, root_nodes, cur_node_list, depth, bpc, error>>
    /\ UNCHANGED queryVars

LoopOver == bpc = "merge" /\ i >= Len(cur_node_list)

\* the loop is over and the new layer is small enough: it is returned as the
\* roots, through every enclosing call, to build_from_text
ReturnRoots ==
    /\ LoopOver
    /\ IsRootLayer(Cardinality(DOMAIN new_node_dict), num_children)
    /\ all_nodes' = DictUpdate(all_nodes, new_node_dict)
    /\ root_nodes' = DOMAIN new_node_dict
    /\ bpc' = "done"
    /\ UNCHANGED <<num_children, cur_node_list, new_node_dict, i, cur_index, depth, error>>
    /\ UNCHANGED queryVars

\* the loop is over and the new layer is too large: the recursive call
Recurse ==
    /\ LoopOver
    /\ ~IsRootLayer(Cardinality(DOMAIN new_node_dict), num_children)
    /\ depth < MaxRecursion
    /\ all_nodes' = DictUpdate(all_nodes, new_node_dict)
    /\ cur_node_list' = GetSortedNodeList(DOMAIN new_node_dict)
    /\ cur_index' = Cardinality(DOMAIN all_nodes')
    /\ new_node_dict' = EmptyDict
    /\ i' = 0
    /\ depth' = depth + 1
    /\ UNCHANGED <<num_children, root_nodes, bpc, error>>
    /\ UNCHANGED queryVars

\* the recursive call exceeds the interpreter's recursion limit
BuildRecursionError ==
    /\ LoopOver
    /\ ~IsRootLayer(Cardinality(DOMAIN new_node_dict), num_children)
    /\ depth >= MaxRecursion
    /\ all_nodes' = DictUpdate(all_nodes, new_node_dict)
    /\ bpc' = "error"
    /\ error' = "RecursionError"
    /\ UNCHANGED <<num_children, root_nodes, cur_node_list, new_node_dict, i, cur_index, depth>>
    /\ UNCHANGED queryVars

\* ------------------------------------------------------------- query
\* A _query frame.  nodes is cur_node_list; pc is select (before the selection
\* call), loop (at the head of the for loop, number j next), wait (inside
\* _query_with_selected_node, the nested _query running), after (the candidate
\* cur_response is there), ret (the return value is there).  invs and descents
\* are history: the _query_with_selected_node invocations this frame made and
\* the number of oracle-calling steps it took after its selection call.
NewFrame(keys, level) ==
    [nodes |-> GetSortedNodeList(keys), level |-> level, pc |-> "select",
     response |-> None, numbers |-> <<>>, j |-> 1, result_response |-> None,
     selected |-> -1, prev_response |-> None, cur_response |-> None,
     retval |-> None, aborted |-> FALSE, invs |-> <<>>, descents |-> 0]

Top == stack[Len(stack)]
SetTop(f) == [stack EXCEPT ![Len(stack)] = f]
Running(pc) == qpc = "running" /\ stack # <<>> /\ Top.pc = pc

\* number > len(cur_node_list)
OutOfRange(number, n) == number > n

\* faulty variant: an aborted selection returns the answer accumulated so far
AbortResult(response, result_response) == result_response

\* what an aborted selection returns: return response
AbortResponse(response, result_response) == response

\* cur_node_list[number - 1], with Python's negative indexing
IndexValid(list, k) == -Len(list) <= k /\ k < Len(list)
ListIndex(list, k) == IF k >= 0 THEN list[k + 1] ELSE list[Len(list) + k + 1]

\* faulty variant: the nested _query is given the selected node again
ChildNodesSelf(node) == {node.index}

\* the cur_nodes of the nested _query: the selected node's children
ChildNodes(node) == node.child_indices

\* level=level+1
ChildLevel(level) == level + 1

\* prev_response=result_response
PrevResponseArg(result_response) == result_response

Invocation(number, node, prev) ==
    [number |-> number, node |-> node, prev |-> prev, ret |-> None,
     refined |-> FALSE, existing |-> None, finished |-> FALSE, raised |-> FALSE]

\* query(): the call _query(self.graph.root_nodes, query_str, level=0)
Query ==
    /\ bpc = "done"
    /\ qpc = "idle"
    /\ stack' = <<NewFrame(root_nodes, 0)>>
    /\ qpc' = "running"
    /\ UNCHANGED <<child_branch_factor, answer, sel_stub, error>>
    /\ UNCHANGED buildVars

\* the selection oracle call and extract_numbers_given_response
Select ==
    /\ Running("select")
    /\ \E response \in Responses :
         /\ stack' = SetTop([Top EXCEPT
                !.response = response,
                !.numbers = ExtractNumbers(response, child_branch_factor),
                !.j = 1,
                !.result_response = None,
                !.pc = "loop"])
         /\ sel_stub' = (sel_stub /\ response = <<"(", "1", ")">>)
    /\ UNCHANGED <<child_branch_factor, answer, qpc, error>>
    /\ UNCHANGED buildVars

MoreNumbers == Running("loop") /\ Top.j <= Len(Top.numbers)
Number == Top.numbers[Top.j]

\* the for loop is over: return result_response
LoopDone ==
    /\ Running("loop")
    /\ Top.j > Len(Top.numbers)
    /\ stack' = SetTop([Top EXCEPT !.pc = "ret", !.retval = Top.result_response])
    /\ UNCHANGED <<child_branch_factor, answer, qpc, error, sel_stub>>
    /\ UNCHANGED buildVars

\* (the branch "number is None" is never taken: int() returns an int or raises)
\* number > len(cur_node_list): return response
AbortOutOfRange ==
    /\ MoreNumbers
    /\ OutOfRange(Number, Len(Top.nodes))
    /\ stack' = SetTop([Top EXCEPT
            !.pc = "ret",
            !.aborted = TRUE,
            !.retval = AbortResponse(Top.response, Top.result_response)])
    /\ UNCHANGED <<child_branch_factor, answer, qpc, error, sel_stub>>
    /\ UNCHANGED buildVars

\* cur_node_list[number - 1] on an empty list
SelectIndexError ==
    /\ MoreNumbers
    /\ ~OutOfRange(Number, Len(Top.nodes))
    /\ ~IndexValid(Top.nodes, Number - 1)
    /\ qpc' = "error"
    /\ error' = "IndexError"
    /\ UNCHANGED <<child_branch_factor, stack, answer, sel_stub>>
    /\ UNCHANGED buildVars

Selectable ==
    /\ MoreNumbers
    /\ ~OutOfRange(Number, Len(Top.nodes))
    /\ IndexValid(Top.nodes, Number - 1)
SelectedNode == ListIndex(Top.nodes, Number - 1)

\* _query_with_selected_node on a leaf: the leaf-answer oracle call
ResolveLeaf ==
    /\ Selectable
    /\ all_nodes[SelectedNode].child_indices = {}
    /\ LET prev == PrevResponseArg(Top.result_response)
       IN stack' = SetTop([Top EXCEPT
            !.selected = SelectedNode,
            !.prev_response = prev,
            !.cur_response = AnswerOracle(all_nodes[SelectedNode].text, QueryStr),
            !.pc = "after",
            !.invs = Append(@, Invocation(Number, SelectedNode, prev)),
            !.descents = @ + 1])
    /\ UNCHANGED <<child_branch_factor, answer, qpc, error, sel_stub>>
    /\ UNCHANGED buildVars

\* _query_with_selected_node on an internal node: the nested _query call
ResolveInternal ==
    /\ Selectable
    /\ all_nodes[SelectedNode].child_indices # {}
    /\ LET prev == PrevResponseArg(Top.result_response)
           caller == [Top EXCEPT
               !.selected = SelectedNode,
               !.prev_response = prev,
               !.pc = "wait",
               !.invs = Append(@, Invocation(Number, SelectedNode, prev)),
               !.descents = @ + 1]
       IN stack' = Append(SetTop(caller),
                          NewFrame(ChildNodes(all_nodes[SelectedNode]),
                                   ChildLevel(Top.level)))
    /\ UNCHANGED <<child_branch_factor, answer, qpc, error, sel_stub>>
    /\ UNCHANGED buildVars

FinishInvocation(f, ret, refined, existing) ==
    [f EXCEPT !.invs[Len(f.invs)] =
        [@ EXCEPT !.ret = ret, !.refined = refined, !.existing = existing,
                  !.finished = TRUE]]

\* prev_response is None: return cur_response
ReturnCandidate ==
    /\ Running("after")
    /\ Top.prev_response = None
    /\ stack' = SetTop([FinishInvocation(Top, Top.cur_response, FALSE, None) EXCEPT
            !.result_response = Top.cur_response,
            !.j = @ + 1,
            !.pc = "loop"])
    /\ UNCHANGED <<child_branch_factor, answer, qpc, error, sel_stub>>
    /\ UNCHANGED buildVars

\* prev_response is there: the refine oracle call on prev_response and
\* "\n".join([selected_node.text, cur_response])
Refine ==
    /\ Running("after")
    /\ Top.prev_response # None
    /\ Top.cur_response # None
    /\ LET context_msg == JoinNewline(all_nodes[Top.selected].text, Top.cur_response)
           refined == RefineOracle(QueryStr, Top.prev_response, context_msg)
       IN stack' = SetTop([FinishInvocation(Top, refined, TRUE, Top.prev_response) EXCEPT
            !.result_response = refined,
            !.j = @ + 1,
            !.pc = "loop",
            !.descents = @ + 1])
    /\ UNCHANGED <<child_branch_factor, answer, qpc, error, sel_stub>>
    /\ UNCHANGED buildVars

\* prev_response is there and cur_response is None: str.join raises TypeError
JoinTypeError ==
    /\ Running("after")
    /\ Top.prev_response # None
    /\ Top.cur_response = None
    /\ stack' = SetTop([Top EXCEPT !.invs[Len(Top.invs)] =
            [@ EXCEPT !.finished = TRUE, !.raised = TRUE]])
    /\ qpc' = "error"
    /\ error' = "TypeError"
    /\ UNCHANGED <<child_branch_factor, answer, sel_stub>>
    /\ UNCHANGED buildVars

\* a nested _query returns to _query_with_selected_node
Return ==
    /\ Running("ret")
    /\ Len(stack) > 1
    /\ LET caller == stack[Len(stack) - 1]
       IN stack' = [SubSeq(stack, 1, Len(stack) - 1) EXCEPT ![Len(stack) - 1] =
            [caller EXCEPT !.cur_response = Top.retval, !.pc = "after"]]
    /\ UNCHANGED <<child_branch_factor, answer, qpc, error, sel_stub>>
    /\ UNCHANGED buildVars

\* the outermost _query returns to query(): .strip()
QueryReturn ==
    /\ Running("ret")
    /\ Len(stack) = 1
    /\ Top.retval # None
    /\ answer' = Strip(Top.retval)
    /\ qpc' = "done"
    /\ UNCHANGED <<child_branch_factor, stack, error, sel_stub>>
    /\ UNCHANGED buildVars

\* the outermost _query returned None: None.strip() raises AttributeError
QueryAttributeError ==
    /\ Running("ret")
    /\ Len(stack) = 1
    /\ Top.retval = None
    /\ qpc' = "error"
    /\ error' = "AttributeError"
    /\ UNCHANGED <<child_branch_factor, stack, answer, sel_stub>>
    /\ UNCHANGED buildVars

Next ==
    \/ BuildFromText
    \/ MergeStep
    \/ ReturnRoots
    \/ Recurse
    \/ BuildRecursionError
    \/ Query
    \/ Select
    \/ LoopDone
    \/ AbortOutOfRange
    \/ SelectIndexError
    \/ ResolveLeaf
    \/ ResolveInternal
    \/ ReturnCandidate
    \/ Refine
    \/ JoinTypeError
    \/ Return
    \/ QueryReturn
    \/ QueryAttributeError

Spec == Init /\ [][Next]_vars

\* a sequential program: whatever step is enabled is eventually taken
FairSpec == Spec /\ WF_vars(Next)

\* ------------------------------------------------------------- measures
Frames == {stack[k] : k \in 1..Len(stack)}
LeafIds == {id \in DOMAIN all_nodes : all_nodes[id].child_indices = {}}
NumLeaves == Cardinality(LeafIds)
Built == bpc = "done"

SetMax(S) == CHOOSE x \in S : \A y \in S : y <= x

\* parent-to-child steps from a node down to a leaf
RECURSIVE Height(_)
Height(id) ==
    IF all_nodes[id].child_indices = {} THEN 0
    ELSE 1 + SetMax({Height(c) : c \in all_nodes[id].child_indices})
RECURSIVE MinHeight(_)
MinHeight(id) ==
    IF all_nodes[id].child_indices = {} THEN 0
    ELSE 1 + (-SetMax({-MinHeight(c) : c \in all_nodes[id].child_indices}))
TreeHeight == IF root_nodes = {} THEN 0 ELSE SetMax({Height(r) : r \in root_nodes})

RECURSIVE Descendants(_)
Descendants(id) ==
    {id} \cup UNION {Descendants(c) : c \in all_nodes[id].child_indices}

CeilDiv(a, b) == (a + b - 1) \div b
RECURSIVE Pow(_, _)
Pow(b, e) == IF e = 0 THEN 1 ELSE b * Pow(b, e - 1)
\* ceil(log_b(k)) for b >= 2, k >= 1: the least e with b^e >= k
RECURSIVE CeilLogFrom(_, _, _)
CeilLogFrom(b, k, e) == IF Pow(b, e) >= k THEN e ELSE CeilLogFrom(b, k, e + 1)
CeilLog(b, k) == CeilLogFrom(b, k, 0)
\* the least d >= 1 with ceil(k / b^d) <= b
RECURSIVE PassesFrom(_, _, _)
PassesFrom(b, k, d) ==
    IF CeilDiv(k, Pow(b, d)) <= b THEN d ELSE PassesFrom(b, k, d + 1)

InRange(f, number) == number \in 1..Len(f.nodes)
Selected(f) == f.pc # "select"

\* ------------------------------------------------------------- C1
\* C1 as stated: whenever build_from_text has returned, root_nodes is
\* non-empty and holds at most B nodes.
C1_RootsNonEmptyBounded ==
    Built => /\ root_nodes # {}
             /\ Cardinality(root_nodes) <= num_children

\* C1, amended: whenever build_from_text has returned for a corpus of at least
\* one chunk, root_nodes is non-empty and holds at most B nodes; for a corpus
\* of no chunks it is empty.
C1_RootsBoundedGivenChunks ==
    Built => /\ Cardinality(root_nodes) <= num_children
             /\ (NumLeaves >= 1 => root_nodes # {})
             /\ (NumLeaves = 0 => root_nodes = {})

C1_Witness ==
    Built /\ NumLeaves > num_children /\ Cardinality(root_nodes) = num_children

\* ------------------------------------------------------------- C2
\* C2: in every graph build_from_text returns, every child id is a key of
\* all_nodes and smaller than the id of the node listing it, and no id is a
\* child of two different nodes.
C2_Forest ==
    Built =>
        \A p \in DOMAIN all_nodes :
            /\ all_nodes[p].index = p
            /\ \A c \in all_nodes[p].child_indices :
                 /\ c \in DOMAIN all_nodes
                 /\ c < p
                 /\ \A q \in DOMAIN all_nodes :
                      c \in all_nodes[q].child_indices => q = p

C2_Witness ==
    Built /\ TreeHeight = 2 /\ Cardinality(root_nodes) = 2

\* ------------------------------------------------------------- C3
\* C3 as stated: the number of merge passes, and the number of parent-to-child
\* steps from a root to a leaf, is ceil(log_B(K)), and at least one.
C3_DepthIsCeilLog ==
    (Built /\ num_children >= 2 /\ NumLeaves >= 1) =>
        /\ depth = Max(1, CeilLog(num_children, NumLeaves))
        /\ \A r \in root_nodes : Height(r) = depth

\* C3, amended: the number of merge passes is the least d >= 1 with
\* ceil(K / B^d) <= B; for B >= 2 and K >= 1 that is
\* max(1, ceil(log_B(K)) - 1), and every root is exactly that many
\* parent-to-child steps above every leaf below it.
C3_DepthIsPassesNeeded ==
    Built =>
        /\ depth = PassesFrom(num_children, NumLeaves, 1)
        /\ (num_children >= 2 /\ NumLeaves >= 1) =>
              depth = Max(1, CeilLog(num_children, NumLeaves) - 1)
        /\ \A r \in root_nodes : Height(r) = depth /\ MinHeight(r) = depth

C3_Witness ==
    Built /\ num_children = 2 /\ NumLeaves = 4 /\ depth = 1

\* ------------------------------------------------------------- C4
\* C4 as stated: build_from_text ends by returning a layer of at most B nodes
\* as root_nodes; it never ends otherwise.
C4_BuildReturnsRoots ==
    bpc \in {"done", "error"} =>
        /\ bpc = "done"
        /\ Cardinality(root_nodes) <= num_children

\* ------------------------------------------------------------- C10
\* C10: a merge pass over a layer of n nodes creates ceil(n/B) nodes whose
\* child sets are non-empty, have at most B members and partition the layer;
\* in a returned graph every node outside root_nodes is the child of exactly
\* one node and every leaf is reachable from a root.
C10_NoChunkLost ==
    /\ LoopOver =>
         LET layer == SeqRange(cur_node_list)
             new == DOMAIN new_node_dict
         IN /\ Cardinality(new) = CeilDiv(Len(cur_node_list), num_children)
            /\ \A p \in new :
                 /\ new_node_dict[p].child_indices # {}
                 /\ Cardinality(new_node_dict[p].child_indices) <= num_children
                 /\ new_node_dict[p].child_indices \subseteq layer
            /\ \A c \in layer :
                 Cardinality({p \in new : c \in new_node_dict[p].child_indices}) = 1
    /\ Built =>
         /\ root_nodes \subseteq DOMAIN all_nodes
         /\ \A c \in DOMAIN all_nodes \ root_nodes :
              Cardinality({p \in DOMAIN all_nodes :
                             c \in all_nodes[p].child_indices}) = 1
         /\ \A l \in LeafIds : \E r \in root_nodes : l \in Descendants(r)

C10_Witness ==
    /\ LoopOver
    /\ depth = 2
    /\ Len(cur_node_list) % num_children # 0
    /\ Len(cur_node_list) > num_children

\* ------------------------------------------------------------- C5
Malformed(f) ==
    \/ f.numbers = <<>>
    \/ \E k \in 1..Len(f.numbers) : ~InRange(f, f.numbers[k])

\* C5 as stated, over a listing of N >= 1 nodes: when the selection response
\* yields no number, or a number outside [1, N] (0 included), the loop aborts
\* at that number, no node is resolved for it, no error is raised, and the
\* _query call returns the raw response.
C5_MalformedReturnsRaw ==
    \A f \in Frames :
        (Selected(f) /\ Len(f.nodes) >= 1) =>
            /\ (f = Top /\ MoreNumbers /\ ~InRange(f, Number)) =>
                  ENABLED AbortOutOfRange
            /\ \A k \in 1..Len(f.invs) : InRange(f, f.invs[k].number)
            /\ (Malformed(f) /\ f.pc = "ret") => f.retval = f.response
            /\ Malformed(f) => qpc # "error"

\* ------------------------------------------------------------- C6
\* C6 as stated: a _query call that meets an extracted number greater than N
\* returns the raw response and has made no descent: no leaf-answer call, no
\* child-level selection and no refine call after its selection call.
C6_OutOfRangeNoDescent ==
    \A f \in Frames :
        f.aborted =>
            /\ f.pc = "ret"
            /\ f.retval = f.response
            /\ f.descents = 0
            /\ f.invs = <<>>

InvocationCalls(inv) == IF inv.refined THEN 2 ELSE 1
RECURSIVE SumCalls(_)
SumCalls(invs) ==
    IF invs = <<>> THEN 0 ELSE InvocationCalls(Head(invs)) + SumCalls(Tail(invs))

\* C6, amended: a _query call that meets an extracted number greater than N
\* returns the raw response unchanged and makes no call from then on; when
\* that number is the first one extracted it has made no descent at all, and
\* when it is a later one (C >= 2) the in-range numbers before it have been
\* resolved, with their leaf-answer, child-selection and refine calls, and
\* their result is dropped.
C6_OutOfRangeReturnsRaw ==
    \A f \in Frames :
        f.aborted =>
            /\ f.pc = "ret"
            /\ f = Top
            /\ f.numbers[f.j] > Len(f.nodes)
            /\ f.retval = f.response
            /\ Len(f.invs) = f.j - 1
            /\ \A k \in 1..Len(f.invs) :
                 f.invs[k].finished /\ f.invs[k].number = f.numbers[k]
            /\ f.descents = SumCalls(f.invs)
            /\ (f.j = 1 => f.descents = 0)

C6_Witness ==
    /\ stack # <<>>
    /\ Top.aborted
    /\ Top.j = 1
    /\ Top.level = 1
    /\ Top.descents = 0

\* ------------------------------------------------------------- C7
EndToEnd ==
    /\ Built
    /\ num_children = 2
    /\ child_branch_factor = 1
    /\ NumLeaves = 2
    /\ all_nodes[0].text = <<"alpha">>
    /\ all_nodes[1].text = <<"beta">>

RootText == <<"summary:", "alpha", Newline, "beta", Newline>>

\* C7 as stated: on chunks alpha, beta with B = 2 the build yields one root
\* with text "summary:alpha\nbeta\n", and with C = 1 and every selection
\* response "(1)", query("q") returns "answer:alpha\nbeta\n|q" trimmed.
C7_EndToEndRootAnswer ==
    EndToEnd =>
        /\ Cardinality(root_nodes) = 1
        /\ \A r \in root_nodes : all_nodes[r].text = RootText
        /\ (qpc = "done" /\ sel_stub) =>
              answer = Strip(<<"answer:", "alpha", Newline, "beta", Newline, "|", "q">>)

\* C7, amended: the build yields one root with text "summary:alpha\nbeta\n";
\* query("q") selects the root, descends to its children, selects the first
\* leaf and returns "answer:alpha|q".
C7_EndToEndLeafAnswer ==
    EndToEnd =>
        /\ Cardinality(root_nodes) = 1
        /\ \A r \in root_nodes : all_nodes[r].text = RootText
        /\ (qpc = "done" /\ sel_stub) => answer = <<"answer:", "alpha", "|", "q">>
        /\ (qpc = "error") => ~sel_stub

C7_Witness == EndToEnd /\ qpc = "done" /\ sel_stub

\* ------------------------------------------------------------- C8
AllInRange(f) ==
    /\ f.numbers # <<>>
    /\ \A k \in 1..Len(f.numbers) : InRange(f, f.numbers[k])

ChainedInvocations(f) ==
    /\ Len(f.invs) <= Len(f.numbers)
    /\ \A k \in 1..Len(f.invs) :
         LET inv == f.invs[k]
         IN /\ inv.number = f.numbers[k]
            /\ inv.node = f.nodes[inv.number]
            /\ (k = 1 => inv.prev = None)
            /\ (k > 1 => f.invs[k - 1].finished /\ inv.prev = f.invs[k - 1].ret)
            /\ (inv.refined => inv.existing = inv.prev)
    /\ (f.pc = "ret") =>
         /\ Len(f.invs) = Len(f.numbers)
         /\ f.retval = f.invs[Len(f.invs)].ret

\* C8 as stated: in a _query call whose extracted numbers are all in range,
\* the invocations of _query_with_selected_node follow the extraction order,
\* the first with prev_response None and each later one with the value its
\* predecessor returned; every invocation with a prev_response calls the
\* refine template, with that value as the existing answer, and no other
\* does; _query returns the last invocation's result.
C8_RefineChaining ==
    \A f \in Frames :
        (Selected(f) /\ AllInRange(f)) =>
            /\ ChainedInvocations(f)
            /\ \A k \in 1..Len(f.invs) :
                 f.invs[k].finished => (f.invs[k].refined <=> f.invs[k].prev # None)

\* ------------------------------------------------------------- C9
QueryEnded == qpc \in {"done", "error"}

\* C9: once a query has started on a built graph it ends (by returning or by
\* raising), and no _query frame is at a level above the height of the tree.
C9_QueryTerminates ==
    /\ [](\A f \in Frames : f.level <= TreeHeight)
    /\ (qpc = "running") ~> QueryEnded

C9_Witness ==
    /\ qpc = "running"
    /\ TreeHeight = 2
    /\ Top.level = TreeHeight
    /\ Top.pc = "select"

====
